---- MODULE Spec2Model ----
(***************************************************************************)
(* State-machine model of the crawl orchestrator of scraper-agent.py:      *)
(* the chunk splitter (chunk_html), the frontier (queue / visited_pages),  *)
(* the selector inference of a page (call_llm_api and the merge of         *)
(* detect_selectors_in_chunks), the click loop, the concurrent download    *)
(* pipeline (download_pdf_concurrently) with its audit log, and the        *)
(* shutdown path of the browser session; and of the main loops of the two  *)
(* earlier iterations, universal_scraper_llm-gemini.py and                 *)
(* universal_scraper_agent.py.                                             *)
(*                                                                         *)
(* Strings are sequences of one-character strings, so that the code's      *)
(* string tests (startswith, endswith, lower, split, urlparse, re.search,  *)
(* json.loads) are computed on the characters and not assumed.             *)
(***************************************************************************)
EXTENDS Integers, Sequences, FiniteSets, TLC

VARIABLES
    \* ---- main() of scraper-agent.py ----
    pc,                  \* position of the orchestrator in main / __main__
    queue,               \* deque of pending page URLs
    visited_pages,       \* set of URLs whose navigation returned
    downloaded_pdf_urls, \* set of document URLs already dispatched
    url,                 \* the URL popped in the current iteration
    pdf_links_on_page,   \* document hrefs found on the current page
    href,                \* the href read last by the link loop
    link_idx,            \* number of <a> elements the link loop has gone through
    tasks,               \* download coroutines of the current gather: url -> stage
    api_responses,       \* detect_selectors_in_chunks: one entry per chunk,
                         \* kept as the record of the page up to the end of
                         \* its click loop
    selectors,           \* the selectors returned for the current page
    audit_log,           \* lines of download_log.csv after the header
    quit_calls,          \* number of driver.quit() calls so far
    \* ---- history of the run (observations, never read by the program) ----
    dequeued,            \* URL -> number of times queue.popleft() returned it
    navigated,           \* URL -> number of driver.get() calls for it
    enqueued,            \* the URLs passed to queue.append()
    fetches,             \* URL -> number of session.get() calls for it
    attempts,            \* selector -> outcome of its pass through the click loop
    enq_order,           \* the observed URLs in the order of queue.append()
    deq_order,           \* the observed URLs in the order of queue.popleft()
    \* ---- the world around the run (fixed by Init) ----
    oracle,              \* the result_text values the inference service gives
    site,                \* the hrefs the pages of the crawled site carry
    observed,            \* the URLs whose queue operations the order history follows
    \* ---- one call of chunk_html ----
    c_pc,                \* "idle", "loop" or "returned"
    html_content,        \* argument html_content
    size,                \* argument size
    overlap,             \* argument overlap
    start,               \* local start
    chunks,              \* local chunks: records [text, lo, hi]
    \* ---- main() of universal_scraper_llm-gemini.py and of ----
    \* ---- universal_scraper_agent.py, which have the same state ----
    it_pc,               \* position in main
    it_queue,            \* queue
    it_visited_pages,    \* visited_pages
    it_downloaded_pdfs,  \* downloaded_pdfs
    it_url,              \* url
    it_new_pdfs,         \* new_pdfs: what is left of it for the download loop
    it_link_idx,         \* number of <a> elements the link loop has gone through
    max_pages,           \* MAX_PAGES of the run
    max_pdfs             \* MAX_PDFS of the run

page_vars == <<api_responses, selectors, attempts>>
env_vars == <<oracle, site, observed>>
order_vars == <<enq_order, deq_order>>
crawl_vars == <<pc, queue, visited_pages, downloaded_pdf_urls, url,
                pdf_links_on_page, href, link_idx, tasks, audit_log, quit_calls,
                dequeued, navigated, enqueued, fetches, page_vars, env_vars,
                order_vars>>
chunk_vars == <<c_pc, html_content, size, overlap, start, chunks>>
iter_vars == <<it_pc, it_queue, it_visited_pages, it_downloaded_pdfs, it_url,
               it_new_pdfs, it_link_idx, max_pages, max_pdfs>>
vars == <<crawl_vars, chunk_vars, iter_vars>>

\* ------------------------------------------------------------------------
\* Bounds of the model
\* ------------------------------------------------------------------------
\* longest html_content given to chunk_html
MaxHtmlLen == 4
\* largest size / overlap argument given to chunk_html
MaxChunkArg == 3
\* iterations of the while loop of chunk_html that are followed
MaxChunks == 6
\* most <a> elements that find_elements returns for one page
MaxAnchors == 2
\* most chunks the html of one page is split into
MaxPageChunks == 2
\* largest MAX_PAGES and largest MAX_PDFS a run is configured with
MaxPageLimit == 2
MaxPdfLimit == 2

\* ------------------------------------------------------------------------
\* Strings
\* ------------------------------------------------------------------------
Min(a, b) == IF a < b THEN a ELSE b
Max(a, b) == IF a > b THEN a ELSE b

\* s[a:b] of Python, for a sequence s and integers a, b (negative indexes
\* count from the end, out-of-range indexes are clamped).
PyIndex(n, i) == IF i < 0 THEN Max(n + i, 0) ELSE Min(i, n)
PySlice(s, a, b) ==
    LET lo == PyIndex(Len(s), a)
        hi == PyIndex(Len(s), b)
    IN  IF lo < hi THEN SubSeq(s, lo + 1, hi) ELSE <<>>

\* s.startswith(p)
StartsWith(s, p) == Len(s) >= Len(p) /\ SubSeq(s, 1, Len(p)) = p
\* s.endswith(p)
EndsWith(s, p) == Len(s) >= Len(p) /\ SubSeq(s, Len(s) - Len(p) + 1, Len(s)) = p

LowerChar(c) ==
    CASE c = "P" -> "p"
      [] c = "D" -> "d"
      [] c = "F" -> "f"
      [] OTHER -> c
\* s.lower(), on the alphabet of the model
Lower(s) == [i \in 1..Len(s) |-> LowerChar(s[i])]

\* index of the first element of s that is in set cs, at or after from; 0 if none
FirstIn(s, cs, from) ==
    LET hits == {i \in from..Len(s) : s[i] \in cs}
    IN  IF hits = {} THEN 0 ELSE CHOOSE i \in hits : \A j \in hits : i <= j

\* ------------------------------------------------------------------------
\* URLs
\* ------------------------------------------------------------------------
Letters == {"a","c","d","e","f","g","h","i","l","m","n","o","p","r","s","t","v","w","x",
            "P","D","F"}
\* scheme_chars of urllib.parse: letters, digits and "+-."
SchemeChars == Letters \cup {"+", "-", "."}

\* urlparse(href).netloc: a valid scheme up to the first ":" is split off,
\* and the netloc is what follows a leading "//" up to the first of "/?#".
AfterScheme(ref) ==
    LET i == FirstIn(ref, {":"}, 1)
    IN  IF /\ i > 1
           /\ ref[1] \in Letters
           /\ \A j \in 1..(i - 1) : ref[j] \in SchemeChars
        THEN SubSeq(ref, i + 1, Len(ref))
        ELSE ref
Netloc(ref) ==
    LET rest == AfterScheme(ref)
    IN  IF StartsWith(rest, <<"/", "/">>)
        THEN LET e == FirstIn(rest, {"/", "?", "#"}, 3)
             IN  IF e = 0 THEN SubSeq(rest, 3, Len(rest)) ELSE SubSeq(rest, 3, e - 1)
        ELSE <<>>
\* urlparse(href) raises ValueError("Invalid IPv6 URL") when exactly one of
\* "[" and "]" occurs in the netloc
UrlparseRaises(ref) ==
    LET cs == {Netloc(ref)[i] : i \in DOMAIN Netloc(ref)}
    IN  ("[" \in cs) # ("]" \in cs)
\* the scheme urlparse splits off, lower-cased; <<>> when there is none
Scheme(ref) ==
    LET rest == AfterScheme(ref)
    IN  IF rest = ref THEN <<>> ELSE Lower(SubSeq(ref, 1, Len(ref) - Len(rest) - 1))

START_URL == <<"h","t","t","p","s",":","/","/","w","w","w",".","g","o","v","i","n","f","o",".","g","o","v","/","a","p","p","/","c","o","l","l","e","c","t","i","o","n","/","c","f","r","/">>

\* hrefs a page of the crawled site may carry: the value of
\* element.get_attribute('href') for its <a> elements.
HrefPageA == <<"h","t","t","p","s",":","/","/","w","w","w",".","g","o","v","i","n","f","o",".","g","o","v","/","a">>
HrefDocBase == <<"h","t","t","p","s",":","/","/","w","w","w",".","g","o","v","i","n","f","o",".","g","o","v","/","d",".","P","D","F">>
HrefDocOther == <<"h","t","t","p","s",":","/","/","x",".","o","r","g","/","d",".","P","D","F">>
HrefOddScheme == <<"h","t","t","p","x",":","/","/","w","w","w",".","g","o","v","i","n","f","o",".","g","o","v","/","a">>
HrefMail == <<"m","a","i","l","t","o",":","a">>
HrefBad == <<"h","t","t","p",":","/","/","[">>
HrefDocLower == <<"h","t","t","p","s",":","/","/","x",".","o","r","g","/","e",".","p","d","f">>
SiteHrefs == {START_URL, HrefPageA, HrefDocBase, HrefDocOther, HrefOddScheme, HrefMail,
              HrefBad}
Hrefs == SiteHrefs \cup {HrefDocLower}

\* base_domain = urlparse(START_URL).netloc
base_domain == Netloc(START_URL)

\* the CSS selector a[href$='.pdf' i]: the href ends in .pdf, in any case
IsPdfHref(ref) == EndsWith(Lower(ref), <<".", "p", "d", "f">>)

\* ------------------------------------------------------------------------
\* chunk_html(html_content, size, overlap)
\* ------------------------------------------------------------------------
\* end = start + size
ChunkEnd(s, sz) == s + sz
\* start += size - overlap
ChunkStrideBroken(sz, ov) == sz - ov + 1
ChunkStride(sz, ov) == sz - ov

\* html_content[start:end], with the offsets the slice covers
Chunk(s, e) ==
    [text |-> PySlice(html_content, s, e),
     lo   |-> PyIndex(Len(html_content), s),
     hi   |-> PyIndex(Len(html_content), e)]

HtmlAlphabet == {"a", "b"}
HtmlInputs == UNION {[1..n -> HtmlAlphabet] : n \in 0..MaxHtmlLen}

\* one iteration of: while start < len(html_content)
ChunkIter ==
    /\ c_pc = "loop"
    /\ start < Len(html_content)
    /\ Len(chunks) < MaxChunks
    /\ chunks' = Append(chunks, Chunk(start, ChunkEnd(start, size)))
    /\ start' = start + ChunkStride(size, overlap)
    /\ UNCHANGED <<c_pc, html_content, size, overlap>>
    /\ UNCHANGED <<crawl_vars, iter_vars>>

\* the loop condition is false: return chunks
ChunkReturn ==
    /\ c_pc = "loop"
    /\ ~(start < Len(html_content))
    /\ c_pc' = "returned"
    /\ UNCHANGED <<html_content, size, overlap, start, chunks>>
    /\ UNCHANGED <<crawl_vars, iter_vars>>

\* ------------------------------------------------------------------------
\* detect_selectors_in_chunks(full_html): the text of a response
\* ------------------------------------------------------------------------
\* re.search(r'\{[\s\S]*\}|\[[\s\S]*\]', result_str): the leftmost position
\* at which "{" is followed somewhere by "}", or "[" by "]"; the match runs
\* to the last such closing character. <<>> when there is no match.
LastOf(s, c) ==
    LET hits == {i \in DOMAIN s : s[i] = c}
    IN  IF hits = {} THEN 0 ELSE CHOOSE i \in hits : \A j \in hits : j <= i
Closer(c) == IF c = "{" THEN "}" ELSE "]"
JsonMatch(s) ==
    LET opens == {i \in DOMAIN s : s[i] \in {"{", "["} /\ LastOf(s, Closer(s[i])) > i}
    IN  IF opens = {} THEN <<>>
        ELSE LET i == CHOOSE k \in opens : \A j \in opens : k <= j
             IN  SubSeq(s, i, LastOf(s, Closer(s[i])))

\* json.loads(text), for the JSON of the model: strings without escapes,
\* unsigned integers, null, arrays and objects, blanks between tokens.
\* A decoded value is [ok, next, kind, text, elems]: kind is "str", "num",
\* "null", "list" or "dict"; text is the source text of the value, which
\* stands for the Python object; elems are the decoded elements of a list, or
\* the [key, val] items of a dict in insertion order.
Digits == {"0", "1", "2"}
JsonFail == [ok |-> FALSE, next |-> 0, kind |-> "", text |-> <<>>, elems |-> <<>>]
JsonOk(s, i, j, k, es) ==
    [ok |-> TRUE, next |-> j, kind |-> k, text |-> SubSeq(s, i, j - 1), elems |-> es]

RECURSIVE SkipBlanks(_, _)
SkipBlanks(s, i) == IF i <= Len(s) /\ s[i] = " " THEN SkipBlanks(s, i + 1) ELSE i

RECURSIVE EndOfDigits(_, _)
EndOfDigits(s, i) == IF i <= Len(s) /\ s[i] \in Digits THEN EndOfDigits(s, i + 1) ELSE i

\* d[key] = val on the items of a dict: a key that is there keeps its place
SetItem(items, key, val) ==
    IF \E p \in DOMAIN items : items[p].key = key
    THEN [p \in DOMAIN items |->
            IF items[p].key = key THEN [key |-> key, val |-> val] ELSE items[p]]
    ELSE Append(items, [key |-> key, val |-> val])

RECURSIVE ParseValue(_, _), ParseElements(_, _, _, _), ParseMembers(_, _, _, _)
ParseValue(s, i) ==
    IF i > Len(s) THEN JsonFail
    ELSE CASE s[i] = "\"" ->
                LET j == FirstIn(s, {"\""}, i + 1)
                IN  IF j = 0 THEN JsonFail ELSE JsonOk(s, i, j + 1, "str", <<>>)
           [] s[i] \in Digits ->
                JsonOk(s, i, EndOfDigits(s, i), "num", <<>>)
           [] s[i] = "n" ->
                IF SubSeq(s, i, Min(i + 3, Len(s))) = <<"n", "u", "l", "l">>
                THEN JsonOk(s, i, i + 4, "null", <<>>)
                ELSE JsonFail
           [] s[i] = "[" ->
                LET j == SkipBlanks(s, i + 1)
                IN  IF j <= Len(s) /\ s[j] = "]"
                    THEN JsonOk(s, i, j + 1, "list", <<>>)
                    ELSE ParseElements(s, i, j, <<>>)
           [] s[i] = "{" ->
                LET j == SkipBlanks(s, i + 1)
                IN  IF j <= Len(s) /\ s[j] = "}"
                    THEN JsonOk(s, i, j + 1, "dict", <<>>)
                    ELSE ParseMembers(s, i, j, <<>>)
           [] OTHER -> JsonFail

\* the elements of the array opened at i, from position j on
ParseElements(s, i, j, acc) ==
    LET v == ParseValue(s, j)
        k == SkipBlanks(s, v.next)
    IN  IF ~v.ok \/ k > Len(s) THEN JsonFail
        ELSE IF s[k] = "," THEN ParseElements(s, i, SkipBlanks(s, k + 1), Append(acc, v))
        ELSE IF s[k] = "]" THEN JsonOk(s, i, k + 1, "list", Append(acc, v))
        ELSE JsonFail

\* the members of the object opened at i, from position j on
ParseMembers(s, i, j, acc) ==
    LET key == ParseValue(s, j)
        c   == SkipBlanks(s, key.next)
        v   == ParseValue(s, SkipBlanks(s, c + 1))
        k   == SkipBlanks(s, v.next)
    IN  IF ~key.ok \/ key.kind # "str" \/ c > Len(s) THEN JsonFail
        ELSE IF s[c] # ":" \/ ~v.ok \/ k > Len(s) THEN JsonFail
        ELSE IF s[k] = ","
             THEN ParseMembers(s, i, SkipBlanks(s, k + 1), SetItem(acc, key.text, v))
        ELSE IF s[k] = "}" THEN JsonOk(s, i, k + 1, "dict", SetItem(acc, key.text, v))
        ELSE JsonFail

JsonLoads(s) ==
    LET v == ParseValue(s, SkipBlanks(s, 1))
    IN  IF v.ok /\ SkipBlanks(s, v.next) = Len(s) + 1 THEN v ELSE JsonFail

\* what call_llm_api can return for a chunk: None when the request failed,
\* else the result_text of the service, a completion of the model in which
\* the selectors "a", "b", "c" may occur
NoResponse == <<"None">>
RespEmpty == <<>>
RespProse == <<"x">>
RespList == <<"[", "\"", "a", "\"", "]">>
RespObject == <<"x", "{", "\"", "k", "\"", ":", "[", "\"", "b", "\"", "]", "}">>
RespTwoLists == <<"[", "\"", "a", "\"", "]", "x", "[", "\"", "b", "\"", "]">>
RespMixed == <<"[", "\"", "a", "\"", ",", "1", ",", "\"", "b", "\"", "]">>
RespNested == <<"[", "\"", "a", "\"", ",", "[", "\"", "c", "\"", "]", ",", "\"", "b", "\"", "]">>
Responses == {RespEmpty, RespProse, RespList, RespObject, RespTwoLists, RespMixed,
              RespNested}

\* if not result_str: continue
Falsy(r) == r = NoResponse \/ r = <<>>

\* selectors_list: the first list among the values of a dict, the list
\* itself, [] for any other decoded value
FirstListValue(items) ==
    LET lists == {p \in DOMAIN items : items[p].val.kind = "list"}
    IN  IF lists = {} THEN <<>>
        ELSE items[CHOOSE p \in lists : \A q \in lists : p <= q].val.elems
SelectorsList(data) ==
    CASE data.kind = "dict" -> FirstListValue(data.elems)
      [] data.kind = "list" -> data.elems
      [] OTHER -> <<>>

\* all_selectors.add(selector) raises TypeError for a list or a dict
Unhashable(v) == v.kind \in {"list", "dict"}

\* for selector in selectors_list: all_selectors.add(selector), up to the
\* first element whose add raises (the except clause logs, and the loop over
\* the responses goes on)
AddedBeforeError(list) ==
    LET bad == {p \in DOMAIN list : Unhashable(list[p])}
        n   == IF bad = {} THEN Len(list)
               ELSE (CHOOSE p \in bad : \A q \in bad : p <= q) - 1
    IN  {list[p].text : p \in 1..n}

\* the body of the loop over api_responses for one response: what it adds to
\* all_selectors
Contribution(r) ==
    IF Falsy(r) \/ JsonMatch(r) = <<>> THEN {}
    ELSE LET data == JsonLoads(JsonMatch(r))
         IN  IF ~data.ok THEN {} ELSE AddedBeforeError(SelectorsList(data))

\* Contribution on the responses of the model
Added == [r \in Responses \cup {NoResponse} |-> Contribution(r)]

\* ------------------------------------------------------------------------
\* main() of scraper-agent.py
\* ------------------------------------------------------------------------
Range(s) == {s[i] : i \in DOMAIN s}
NoUrl == <<"-">>
Finished == {"done", "failed", "cancelled"}

\* what driver.find_elements(By.CSS_SELECTOR, "a[href$='.pdf' i]") can give:
\* the hrefs of at most MaxAnchors elements, each ending in .pdf in any case;
\* pdf_links_on_page is the set of those that are not empty (if href:)
PdfHrefs == {h \in Hrefs : IsPdfHref(h) /\ h # <<>>}
PdfLinkSets == {s \in SUBSET PdfHrefs : Cardinality(s) <= MaxAnchors}

\* the URLs for which a download task is created:
\* if pdf_url not in downloaded_pdf_urls
NewPdfUrlsNoCheck(links, done) == links
NewPdfUrls(links, done) == links \ done

\* if href and href.startswith('http'): if urlparse(href).netloc == base_domain:
InScope(ref) ==
    /\ ref # <<>>
    /\ StartsWith(ref, <<"h", "t", "t", "p">>)
    /\ Netloc(ref) = base_domain

\* urlparse(href) is called only under: if href and href.startswith('http')
UrlparseCalled(ref) == ref # <<>> /\ StartsWith(ref, <<"h", "t", "t", "p">>)

\* the hrefs of the model on which urlparse(href) is called and raises, and
\* those that pass both tests of the link loop
RaisingHrefs == {h \in Hrefs : UrlparseCalled(h) /\ UrlparseRaises(h)}
InScopeHrefs == {h \in Hrefs : InScope(h)}

\* if href not in visited_pages and href not in queue
NotSeenNoQueueCheck(ref, vis, q) == ref \notin vis
NotSeen(ref, vis, q) == ref \notin vis /\ ref \notin Range(q)

\* what the except branch of download_pdf_concurrently adds to the audit log
AuditOnFailureLogged(log, rec) == Append(log, rec)
AuditOnFailure(log, rec) == log

\* The locals url, pdf_links_on_page, href, api_responses, selectors and the
\* loop positions of an iteration are dead once the iteration is left:
\* nothing reads them before they are assigned again, and the model forgets
\* them.
EndOfIteration ==
    /\ url' = NoUrl
    /\ pdf_links_on_page' = {}
    /\ href' = NoUrl
    /\ link_idx' = 0
    /\ api_responses' = <<>>
    /\ selectors' = {}
    /\ attempts' = <<>>

\* queue.append(href)
QueueAppendLeft(q, h) == <<h>> \o q
QueueAppend(q, h) == Append(q, h)

\* the order history after a queue operation on URL u
Observe(order, u) == IF u \in observed THEN Append(order, u) ELSE order

\* url = queue.popleft(); if url in visited_pages: continue
PopLeft ==
    /\ pc = "loop"
    /\ queue # <<>>
    /\ url' = Head(queue)
    /\ queue' = Tail(queue)
    /\ dequeued' = [dequeued EXCEPT ![Head(queue)] = @ + 1]
    /\ deq_order' = Observe(deq_order, Head(queue))
    /\ pc' = IF Head(queue) \in visited_pages THEN "loop" ELSE "get"
    /\ UNCHANGED <<visited_pages, downloaded_pdf_urls, pdf_links_on_page,
                   href, link_idx, tasks, audit_log, quit_calls, navigated,
                   enqueued, fetches>>
    /\ UNCHANGED page_vars
    /\ UNCHANGED <<chunk_vars, env_vars, iter_vars, enq_order>>

\* driver.get(url) returns; visited_pages.add(url)
NavigateOk ==
    /\ pc = "get"
    /\ navigated' = [navigated EXCEPT ![url] = @ + 1]
    /\ visited_pages' = visited_pages \cup {url}
    /\ pc' = "source"
    /\ UNCHANGED <<queue, downloaded_pdf_urls, url, pdf_links_on_page, href,
                   link_idx, tasks, audit_log, quit_calls, dequeued,
                   enqueued, fetches>>
    /\ UNCHANGED page_vars
    /\ UNCHANGED <<chunk_vars, env_vars, iter_vars, order_vars>>

\* the visited set after driver.get(u) raised: visited_pages.add(url) of
\* line 184 stands after the call and is skipped
VisitedAfterErrorMarked(visited, u) == visited \cup {u}
VisitedAfterError(visited, u) == visited

\* driver.get(url) raises: the except clause logs, the loop goes on
NavigateFail ==
    /\ pc = "get"
    /\ navigated' = [navigated EXCEPT ![url] = @ + 1]
    /\ visited_pages' = VisitedAfterError(visited_pages, url)
    /\ pc' = "loop"
    /\ url' = NoUrl
    /\ UNCHANGED <<queue, downloaded_pdf_urls,
                   pdf_links_on_page, href, link_idx, tasks, audit_log,
                   quit_calls, dequeued, enqueued, fetches>>
    /\ UNCHANGED page_vars
    /\ UNCHANGED <<chunk_vars, env_vars, iter_vars, order_vars>>

\* html = driver.page_source, the snapshot file is written, and
\* detect_selectors_in_chunks splits html and starts one call_llm_api in the
\* executor for each chunk
Pending == <<"pending">>
AnalyzePage ==
    /\ pc = "source"
    /\ \E n \in 1..MaxPageChunks : api_responses' = [i \in 1..n |-> Pending]
    /\ pc' = "infer"
    /\ UNCHANGED <<queue, visited_pages, downloaded_pdf_urls, url,
                   pdf_links_on_page, href, link_idx, tasks, audit_log,
                   quit_calls, dequeued, navigated, enqueued, fetches,
                   selectors, attempts>>
    /\ UNCHANGED <<chunk_vars, env_vars, iter_vars, order_vars>>

\* call_llm_api returns for chunk i: None after a RequestException, else the
\* result_text of the response
LlmReturn(i) ==
    /\ pc = "infer"
    /\ api_responses[i] = Pending
    /\ \E r \in oracle \cup {NoResponse} :
         api_responses' = [api_responses EXCEPT ![i] = r]
    /\ UNCHANGED <<pc, queue, visited_pages, downloaded_pdf_urls, url,
                   pdf_links_on_page, href, link_idx, tasks, audit_log,
                   quit_calls, dequeued, navigated, enqueued, fetches,
                   selectors, attempts>>
    /\ UNCHANGED <<chunk_vars, env_vars, iter_vars, order_vars>>

\* all_selectors after a response for which the loop body went to continue
\* or to the except clause before anything was added
AfterSkippedChunkReset(all) == {}
AfterSkippedChunk(all) == all

\* the loop over api_responses, from response i on, with all_selectors = all
RECURSIVE MergeFrom(_, _, _)
MergeFrom(resps, i, all) ==
    IF i > Len(resps) THEN all
    ELSE IF Added[resps[i]] = {}
         THEN MergeFrom(resps, i + 1, AfterSkippedChunk(all))
         ELSE MergeFrom(resps, i + 1, all \cup Added[resps[i]])

\* await asyncio.gather(*tasks) returns, the responses are merged and
\* list(all_selectors) is returned to main
MergeSelectors ==
    /\ pc = "infer"
    /\ \A i \in DOMAIN api_responses : api_responses[i] # Pending
    /\ selectors' = MergeFrom(api_responses, 1, {})
    /\ attempts' = [s \in selectors' |-> "none"]
    /\ pc' = "click"
    /\ UNCHANGED <<queue, visited_pages, downloaded_pdf_urls, url,
                   pdf_links_on_page, href, link_idx, tasks, audit_log,
                   quit_calls, dequeued, navigated, enqueued, fetches,
                   api_responses>>
    /\ UNCHANGED <<chunk_vars, env_vars, iter_vars, order_vars>>

\* a selector that is a Python str; any other element of the list makes
\* driver.find_element(By.CSS_SELECTOR, selector) raise
IsStr(s) == s # <<>> /\ s[1] = "\""

\* where main is after find_element, execute_script or click has raised for
\* one selector: except Exception inside the for loop logs a warning
PcAfterClickFailureRaised == "except"
PcAfterClickFailure == "click"

\* one iteration of: for selector in selectors (list(all_selectors), so in
\* any order): find the element, scroll to it, click it
ClickStep(s) ==
    /\ pc = "click"
    /\ s \in selectors
    /\ attempts[s] = "none"
    /\ \E r \in IF IsStr(s) THEN {"clicked", "failed"} ELSE {"failed"} :
         /\ attempts' = [attempts EXCEPT ![s] = r]
         /\ pc' = IF r = "failed" THEN PcAfterClickFailure ELSE pc
    /\ UNCHANGED <<queue, visited_pages, downloaded_pdf_urls, url,
                   pdf_links_on_page, href, link_idx, tasks, audit_log,
                   quit_calls, dequeued, navigated, enqueued, fetches,
                   api_responses, selectors>>
    /\ UNCHANGED <<chunk_vars, env_vars, iter_vars, order_vars>>

\* the for loop over selectors is over; the selectors are dead from here on
ClicksDone ==
    /\ pc = "click"
    /\ \A s \in selectors : attempts[s] # "none"
    /\ pc' = "scan"
    /\ selectors' = {}
    /\ attempts' = <<>>
    /\ api_responses' = <<>>
    /\ UNCHANGED <<queue, visited_pages, downloaded_pdf_urls, url,
                   pdf_links_on_page, href, link_idx, tasks, audit_log,
                   quit_calls, dequeued, navigated, enqueued, fetches>>
    /\ UNCHANGED <<chunk_vars, env_vars, iter_vars, order_vars>>

\* the page after the clicks is scanned for document links, and one download
\* task is created for each of them that is not in downloaded_pdf_urls
ScanPdfLinks ==
    /\ pc = "scan"
    /\ \E found \in PdfLinkSets \cap SUBSET site :
         LET new == NewPdfUrls(found, downloaded_pdf_urls)
         IN  /\ pdf_links_on_page' = found
             /\ downloaded_pdf_urls' = downloaded_pdf_urls \cup new
             /\ tasks' = [u \in DOMAIN tasks \cup new |->
                            IF u \in new THEN "created" ELSE tasks[u]]
             /\ pc' = IF new = {} THEN "links" ELSE "gather"
    /\ UNCHANGED <<queue, visited_pages, url, href, link_idx, audit_log,
                   quit_calls, dequeued, navigated, enqueued, fetches>>
    /\ UNCHANGED page_vars
    /\ UNCHANGED <<chunk_vars, env_vars, iter_vars, order_vars>>

\* where main is after a download has failed: except Exception in
\* download_pdf_concurrently logs and returns None, so nothing is raised into
\* await asyncio.gather(*download_tasks)
PcAfterDownloadFailureRaised == "except"
PcAfterDownloadFailure == "gather"

\* s.split(sep)[-1] and s.split(sep)[0] for a one-character sep
AfterLast(s, sep) ==
    LET hits == {i \in DOMAIN s : s[i] = sep}
    IN  IF hits = {} THEN s
        ELSE SubSeq(s, (CHOOSE i \in hits : \A j \in hits : j <= i) + 1, Len(s))
BeforeFirst(s, sep) ==
    LET i == FirstIn(s, {sep}, 1)
    IN  IF i = 0 THEN s ELSE SubSeq(s, 1, i - 1)

\* re.sub(r'[\\/*?:"<>|]', "_", file_name)
UnsafeChars == {"\\", "/", "*", "?", ":", "\"", "<", ">", "|"}
Sanitize(s) == [i \in DOMAIN s |-> IF s[i] \in UnsafeChars THEN "_" ELSE s[i]]

\* the file name download_pdf_concurrently writes pdf_url to, in DOWNLOAD_DIR
FileName(pdf_url) ==
    LET seg    == BeforeFirst(AfterLast(pdf_url, "/"), "?")
        named  == IF seg = <<>>
                  THEN <<"d","o","w","n","l","o","a","d","e","d","_","f","i","l","e",
                         ".","p","d","f">>
                  ELSE seg
        suffix == IF EndsWith(Lower(named), <<".", "p", "d", "f">>)
                  THEN named
                  ELSE named \o <<".", "p", "d", "f">>
    IN  Sanitize(suffix)

\* the audit log when response.read() has returned the bytes: the line is
\* written by download_logger.info, which stands after the file is written
AuditAfterReadLogged(log, rec) == Append(log, rec)
AuditAfterRead(log, rec) == log

\* download_pdf_concurrently: session.get(pdf_url), raise_for_status, read
TaskGet(u) ==
    /\ pc = "gather"
    /\ tasks[u] = "created"
    /\ fetches' = [fetches EXCEPT ![u] = @ + 1]
    /\ \E r \in {"got", "failed"} :
         /\ tasks' = [tasks EXCEPT ![u] = r]
         /\ audit_log' = IF r = "failed"
                         THEN AuditOnFailure(audit_log, [pdf_url |-> u, source_url |-> url])
                         ELSE AuditAfterRead(audit_log, [pdf_url |-> u, source_url |-> url])
         /\ pc' = IF r = "failed" THEN PcAfterDownloadFailure ELSE pc
    /\ UNCHANGED <<queue, visited_pages, downloaded_pdf_urls, url,
                   pdf_links_on_page, href, link_idx, quit_calls, dequeued,
                   navigated, enqueued>>
    /\ UNCHANGED page_vars
    /\ UNCHANGED <<chunk_vars, env_vars, iter_vars, order_vars>>

\* download_pdf_concurrently: the file is written, then the audit line
TaskWrite(u) ==
    /\ pc = "gather"
    /\ tasks[u] = "got"
    /\ \/ /\ tasks' = [tasks EXCEPT ![u] = "done"]
          /\ audit_log' = Append(audit_log, [pdf_url |-> u, source_url |-> url])
          /\ pc' = pc
       \/ /\ tasks' = [tasks EXCEPT ![u] = "failed"]
          /\ audit_log' = AuditOnFailure(audit_log, [pdf_url |-> u, source_url |-> url])
          /\ pc' = PcAfterDownloadFailure
    /\ UNCHANGED <<queue, visited_pages, downloaded_pdf_urls, url,
                   pdf_links_on_page, href, link_idx, quit_calls, dequeued,
                   navigated, enqueued, fetches>>
    /\ UNCHANGED page_vars
    /\ UNCHANGED <<chunk_vars, env_vars, iter_vars, order_vars>>

\* when await asyncio.gather(*download_tasks) returns: all awaitables done
GatherReturnsAllSucceeded(ts) == \A u \in DOMAIN ts : ts[u] = "done"
GatherReturnsFirstCompleted(ts) == \E u \in DOMAIN ts : ts[u] \in Finished
GatherReturns(ts) == \A u \in DOMAIN ts : ts[u] \in Finished

\* await asyncio.gather(*download_tasks) returns
GatherDone ==
    /\ pc = "gather"
    /\ GatherReturns(tasks)
    /\ pc' = "links"
    /\ UNCHANGED <<queue, visited_pages, downloaded_pdf_urls, url,
                   pdf_links_on_page, href, link_idx, tasks, audit_log,
                   quit_calls, dequeued, navigated, enqueued, fetches>>
    /\ UNCHANGED page_vars
    /\ UNCHANGED <<chunk_vars, env_vars, iter_vars, order_vars>>

\* one iteration of: for link in link_elements. The elements are those of
\* the page as driver.find_elements(By.TAG_NAME, 'a') finds it, at most
\* MaxAnchors of them, in any order and with any href (none: <<>>).
LinkStep ==
    /\ pc = "links"
    /\ link_idx < MaxAnchors
    /\ link_idx' = link_idx + 1
    /\ \E h \in site \cup {<<>>} :
         /\ href' = h
         /\ IF h \in RaisingHrefs
            THEN /\ pc' = "except"
                 /\ UNCHANGED <<queue, enqueued, enq_order>>
            ELSE /\ pc' = "links"
                 /\ IF h \in InScopeHrefs /\ NotSeen(h, visited_pages, queue)
                    THEN /\ queue' = QueueAppend(queue, h)
                         /\ enqueued' = enqueued \cup {h}
                         /\ enq_order' = Observe(enq_order, h)
                    ELSE UNCHANGED <<queue, enqueued, enq_order>>
    /\ UNCHANGED <<visited_pages, downloaded_pdf_urls, url,
                   pdf_links_on_page, tasks, audit_log, quit_calls, dequeued,
                   navigated, fetches>>
    /\ UNCHANGED page_vars
    /\ UNCHANGED <<chunk_vars, env_vars, iter_vars, deq_order>>

\* the for loop over link_elements is over
LinksDone ==
    /\ pc = "links"
    /\ pc' = "loop"
    /\ EndOfIteration
    /\ UNCHANGED <<queue, visited_pages, downloaded_pdf_urls, tasks,
                   audit_log, quit_calls, dequeued, navigated, enqueued,
                   fetches>>
    /\ UNCHANGED <<chunk_vars, env_vars, iter_vars, order_vars>>

\* except Exception as e: main_logger.error(...), after urlparse(href) has
\* raised in the link loop; the while loop goes on
LinkErrorLogged ==
    /\ pc = "except"
    /\ pc' = "loop"
    /\ EndOfIteration
    /\ UNCHANGED <<queue, visited_pages, downloaded_pdf_urls, tasks,
                   audit_log, quit_calls, dequeued, navigated, enqueued,
                   fetches>>
    /\ UNCHANGED <<chunk_vars, env_vars, iter_vars, order_vars>>

\* an exception other than a caught one (page_source, the snapshot write, the
\* selector detection, find_elements, get_attribute, urlparse): except Exception
PageError ==
    /\ pc \in {"source", "scan", "links"}
    /\ pc' = "loop"
    /\ EndOfIteration
    /\ UNCHANGED <<queue, visited_pages, downloaded_pdf_urls, tasks,
                   audit_log, quit_calls, dequeued, navigated, enqueued,
                   fetches>>
    /\ UNCHANGED <<chunk_vars, env_vars, iter_vars, order_vars>>

\* while queue: is false; the client session is closed
LoopExit ==
    /\ pc = "loop"
    /\ queue = <<>>
    /\ pc' = "main_quit"
    /\ UNCHANGED <<queue, visited_pages, downloaded_pdf_urls, url,
                   pdf_links_on_page, href, link_idx, tasks, audit_log,
                   quit_calls, dequeued, navigated, enqueued, fetches>>
    /\ UNCHANGED page_vars
    /\ UNCHANGED <<chunk_vars, env_vars, iter_vars, order_vars>>

\* driver.quit() at the end of main
MainQuit ==
    /\ pc = "main_quit"
    /\ quit_calls' = quit_calls + 1
    /\ pc' = "finally"
    /\ UNCHANGED <<queue, visited_pages, downloaded_pdf_urls, url,
                   pdf_links_on_page, href, link_idx, tasks, audit_log,
                   dequeued, navigated, enqueued, fetches>>
    /\ UNCHANGED page_vars
    /\ UNCHANGED <<chunk_vars, env_vars, iter_vars, order_vars>>

\* KeyboardInterrupt while asyncio.run(main()) runs: the download tasks in
\* flight are cancelled, the except clause logs, the finally clause follows
Interrupt ==
    /\ pc \in {"loop", "get", "source", "infer", "click", "scan", "gather",
               "links", "except", "main_quit"}
    /\ tasks' = [u \in DOMAIN tasks |->
                   IF tasks[u] \in Finished THEN tasks[u] ELSE "cancelled"]
    /\ pc' = "finally"
    /\ EndOfIteration
    /\ UNCHANGED <<queue, visited_pages, downloaded_pdf_urls, audit_log,
                   quit_calls, dequeued, navigated, enqueued, fetches>>
    /\ UNCHANGED <<chunk_vars, env_vars, iter_vars, order_vars>>

\* finally: if 'driver' in locals() and driver: driver.quit()
FinallyQuit ==
    /\ pc = "finally"
    /\ quit_calls' = quit_calls + 1
    /\ pc' = "done"
    /\ UNCHANGED <<queue, visited_pages, downloaded_pdf_urls, url,
                   pdf_links_on_page, href, link_idx, tasks, audit_log,
                   dequeued, navigated, enqueued, fetches>>
    /\ UNCHANGED page_vars
    /\ UNCHANGED <<chunk_vars, env_vars, iter_vars, order_vars>>

\* ------------------------------------------------------------------------
\* main() of the two earlier iterations of the scraper
\* ------------------------------------------------------------------------
\* while queue and len(visited_pages) < MAX_PAGES and len(downloaded_pdfs) < MAX_PDFS
LoopCondition ==
    /\ it_queue # <<>>
    /\ Cardinality(it_visited_pages) < max_pages
    /\ Cardinality(it_downloaded_pdfs) < max_pdfs

\* the locals of an iteration of the loop are dead when it is left
IterEndOfIteration ==
    /\ it_url' = NoUrl
    /\ it_new_pdfs' = {}
    /\ it_link_idx' = 0

\* ---- universal_scraper_llm-gemini.py ----
\* url = queue.popleft(); if url in visited_pages: continue;
\* visited_pages.add(url)
GeminiPopLeft ==
    /\ it_pc = "loop"
    /\ LoopCondition
    /\ it_queue' = Tail(it_queue)
    /\ IF Head(it_queue) \in it_visited_pages
       THEN UNCHANGED <<it_pc, it_visited_pages, it_url>>
       ELSE /\ it_url' = Head(it_queue)
            /\ it_visited_pages' = it_visited_pages \cup {Head(it_queue)}
            /\ it_pc' = "get"
    /\ UNCHANGED <<it_downloaded_pdfs, it_new_pdfs, it_link_idx, max_pages, max_pdfs>>
    /\ UNCHANGED <<crawl_vars, chunk_vars>>

\* driver.get(url) returns; html = driver.page_source[:20000]
GeminiNavigateOk ==
    /\ it_pc = "get"
    /\ it_pc' = "page"
    /\ UNCHANGED <<it_queue, it_visited_pages, it_downloaded_pdfs, it_url,
                   it_new_pdfs, it_link_idx, max_pages, max_pdfs>>
    /\ UNCHANGED <<crawl_vars, chunk_vars>>

\* driver.get(url) raises: main has no try, the exception leaves main and
\* asyncio.run, and the script ends with the traceback
GeminiNavigateRaise ==
    /\ it_pc = "get"
    /\ it_pc' = "crashed"
    /\ UNCHANGED <<it_queue, it_visited_pages, it_downloaded_pdfs, it_url,
                   it_new_pdfs, it_link_idx, max_pages, max_pdfs>>
    /\ UNCHANGED <<crawl_vars, chunk_vars>>

\* any other exception in the loop body (page_source, agent.run,
\* find_elements, get_attribute) ends the script in the same way
GeminiRaise ==
    /\ it_pc \in {"page", "links"}
    /\ it_pc' = "crashed"
    /\ UNCHANGED <<it_queue, it_visited_pages, it_downloaded_pdfs, it_url,
                   it_new_pdfs, it_link_idx, max_pages, max_pdfs>>
    /\ UNCHANGED <<crawl_vars, chunk_vars>>

\* the selector a[href$='.pdf'] of click_and_download: no i flag
IsLowerPdfHref(ref) == EndsWith(ref, <<".", "p", "d", "f">>)

\* selectors = await detect_selectors(html);
\* new_pdfs = click_and_download(selectors, url): the hrefs of the
\* a[href$='.pdf'] elements; downloaded_pdfs.update(new_pdfs)
GeminiClickAndDownload ==
    /\ it_pc = "page"
    /\ \E found \in SUBSET {h \in site : IsLowerPdfHref(h)} :
         /\ Cardinality(found) <= MaxAnchors
         /\ it_downloaded_pdfs' = it_downloaded_pdfs \cup found
    /\ it_pc' = "links"
    /\ UNCHANGED <<it_queue, it_visited_pages, it_url, it_new_pdfs,
                   it_link_idx, max_pages, max_pdfs>>
    /\ UNCHANGED <<crawl_vars, chunk_vars>>

\* one iteration of: for a in driver.find_elements_by_css_selector('a[href]')
GeminiLinkStep ==
    /\ it_pc = "links"
    /\ it_link_idx < MaxAnchors
    /\ it_link_idx' = it_link_idx + 1
    /\ \E h \in site :
         IF /\ StartsWith(h, <<"h", "t", "t", "p">>)
            /\ ~EndsWith(Lower(h), <<".", "p", "d", "f">>)
            /\ h \notin it_visited_pages
         THEN it_queue' = Append(it_queue, h)
         ELSE UNCHANGED it_queue
    /\ UNCHANGED <<it_pc, it_visited_pages, it_downloaded_pdfs, it_url,
                   it_new_pdfs, max_pages, max_pdfs>>
    /\ UNCHANGED <<crawl_vars, chunk_vars>>

\* the for loop over the anchors is over
GeminiLinksDone ==
    /\ it_pc = "links"
    /\ it_pc' = "loop"
    /\ IterEndOfIteration
    /\ UNCHANGED <<it_queue, it_visited_pages, it_downloaded_pdfs, max_pages, max_pdfs>>
    /\ UNCHANGED <<crawl_vars, chunk_vars>>

\* the loop condition is false: the summary is logged and main returns
GeminiExit ==
    /\ it_pc = "loop"
    /\ ~LoopCondition
    /\ it_pc' = "done"
    /\ UNCHANGED <<it_queue, it_visited_pages, it_downloaded_pdfs, it_url,
                   it_new_pdfs, it_link_idx, max_pages, max_pdfs>>
    /\ UNCHANGED <<crawl_vars, chunk_vars>>

\* ---- universal_scraper_agent.py ----
\* url = queue.popleft(); if url in visited_pages: continue
UniversalPopLeft ==
    /\ it_pc = "loop"
    /\ LoopCondition
    /\ it_queue' = Tail(it_queue)
    /\ IF Head(it_queue) \in it_visited_pages
       THEN UNCHANGED <<it_pc, it_url>>
       ELSE /\ it_url' = Head(it_queue)
            /\ it_pc' = "get"
    /\ UNCHANGED <<it_visited_pages, it_downloaded_pdfs, it_new_pdfs,
                   it_link_idx, max_pages, max_pdfs>>
    /\ UNCHANGED <<crawl_vars, chunk_vars>>

\* driver.get(url) returns; visited_pages.add(url)
UniversalNavigateOk ==
    /\ it_pc = "get"
    /\ it_visited_pages' = it_visited_pages \cup {it_url}
    /\ it_pc' = "page"
    /\ UNCHANGED <<it_queue, it_downloaded_pdfs, it_url, it_new_pdfs,
                   it_link_idx, max_pages, max_pdfs>>
    /\ UNCHANGED <<crawl_vars, chunk_vars>>

\* an exception in the try of the loop body that no inner handler catches
\* (driver.get, page_source, open or write of the file, find_elements,
\* get_attribute): except Exception logs, the while loop goes on
UniversalPageError ==
    /\ it_pc \in {"get", "page", "download", "links"}
    /\ it_pc' = "loop"
    /\ IterEndOfIteration
    /\ UNCHANGED <<it_queue, it_visited_pages, it_downloaded_pdfs, max_pages, max_pdfs>>
    /\ UNCHANGED <<crawl_vars, chunk_vars>>

\* selectors = await detect_selectors(html);
\* new_pdfs = click_and_download(selectors, url): the hrefs of the
\* a[href$='.pdf' i] elements of the page after the clicks
UniversalClickAndDownload ==
    /\ it_pc = "page"
    /\ \E found \in PdfLinkSets \cap SUBSET site : it_new_pdfs' = found
    /\ it_pc' = "download"
    /\ UNCHANGED <<it_queue, it_visited_pages, it_downloaded_pdfs, it_url,
                   it_link_idx, max_pages, max_pdfs>>
    /\ UNCHANGED <<crawl_vars, chunk_vars>>

\* one iteration of: for pdf_url in new_pdfs (a set, so in any order):
\* if pdf_url not in downloaded_pdfs: requests.get, raise_for_status, the
\* file is written and downloaded_pdfs.add(pdf_url); a RequestException is
\* logged
UniversalDownload(pdf_url) ==
    /\ it_pc = "download"
    /\ pdf_url \in it_new_pdfs
    /\ it_new_pdfs' = it_new_pdfs \ {pdf_url}
    /\ \/ /\ pdf_url \notin it_downloaded_pdfs
          /\ it_downloaded_pdfs' = it_downloaded_pdfs \cup {pdf_url}
       \/ UNCHANGED it_downloaded_pdfs
    /\ UNCHANGED <<it_pc, it_queue, it_visited_pages, it_url, it_link_idx,
                   max_pages, max_pdfs>>
    /\ UNCHANGED <<crawl_vars, chunk_vars>>

\* the for loop over new_pdfs is over
UniversalDownloadsDone ==
    /\ it_pc = "download"
    /\ it_new_pdfs = {}
    /\ it_pc' = "links"
    /\ UNCHANGED <<it_queue, it_visited_pages, it_downloaded_pdfs, it_url,
                   it_new_pdfs, it_link_idx, max_pages, max_pdfs>>
    /\ UNCHANGED <<crawl_vars, chunk_vars>>

\* not href.lower().endswith(('.pdf', '.zip', '.jpg', '.png'))
SkippedSuffixes == {<<".", "p", "d", "f">>, <<".", "z", "i", "p">>,
                    <<".", "j", "p", "g">>, <<".", "p", "n", "g">>}
IsPageHref(ref) ==
    /\ StartsWith(ref, <<"h", "t", "t", "p">>)
    /\ \A suffix \in SkippedSuffixes : ~EndsWith(Lower(ref), suffix)

\* one iteration of: for link in link_elements
UniversalLinkStep ==
    /\ it_pc = "links"
    /\ it_link_idx < MaxAnchors
    /\ it_link_idx' = it_link_idx + 1
    /\ \E h \in site \cup {<<>>} :
         IF /\ h # <<>>
            /\ IsPageHref(h)
            /\ NotSeen(h, it_visited_pages, it_queue)
         THEN it_queue' = Append(it_queue, h)
         ELSE UNCHANGED it_queue
    /\ UNCHANGED <<it_pc, it_visited_pages, it_downloaded_pdfs, it_url,
                   it_new_pdfs, max_pages, max_pdfs>>
    /\ UNCHANGED <<crawl_vars, chunk_vars>>

\* the for loop over link_elements is over
UniversalLinksDone ==
    /\ it_pc = "links"
    /\ it_pc' = "loop"
    /\ IterEndOfIteration
    /\ UNCHANGED <<it_queue, it_visited_pages, it_downloaded_pdfs, max_pages, max_pdfs>>
    /\ UNCHANGED <<crawl_vars, chunk_vars>>

\* the loop condition is false: the summary is logged (the driver.quit()
\* calls that follow are those of scraper-agent.py, modelled by MainQuit and
\* FinallyQuit)
UniversalExit ==
    /\ it_pc = "loop"
    /\ ~LoopCondition
    /\ it_pc' = "done"
    /\ UNCHANGED <<it_queue, it_visited_pages, it_downloaded_pdfs, it_url,
                   it_new_pdfs, it_link_idx, max_pages, max_pdfs>>
    /\ UNCHANGED <<crawl_vars, chunk_vars>>

\* ------------------------------------------------------------------------
\* Specifications
\* ------------------------------------------------------------------------
IterIdle ==
    /\ it_pc = "idle"
    /\ it_queue = <<>>
    /\ it_visited_pages = {}
    /\ it_downloaded_pdfs = {}
    /\ it_url = NoUrl
    /\ it_new_pdfs = {}
    /\ it_link_idx = 0
    /\ max_pages = 1
    /\ max_pdfs = 1

ChunkIdle ==
    /\ c_pc = "idle"
    /\ html_content = <<>>
    /\ size = 1
    /\ overlap = 0
    /\ start = 0
    /\ chunks = <<>>

CrawlInit ==
    /\ pc = "loop"
    /\ queue = <<START_URL>>
    /\ visited_pages = {}
    /\ downloaded_pdf_urls = {}
    /\ url = NoUrl
    /\ pdf_links_on_page = {}
    /\ href = NoUrl
    /\ link_idx = 0
    /\ tasks = <<>>
    /\ audit_log = <<>>
    /\ quit_calls = 0
    /\ dequeued = [h \in Hrefs |-> 0]
    /\ navigated = [h \in Hrefs |-> 0]
    /\ enqueued = {}
    /\ fetches = [h \in Hrefs |-> 0]
    /\ enq_order = IF START_URL \in observed THEN <<START_URL>> ELSE <<>>
    /\ deq_order = <<>>
    /\ api_responses = <<>>
    /\ selectors = {}
    /\ attempts = <<>>

\* a run of the scraper on a site whose pages carry any of the hrefs, with an
\* inference service that answers with a list of one selector when it answers
Init ==
    /\ observed = {}
    /\ CrawlInit
    /\ ChunkIdle
    /\ IterIdle
    /\ site = SiteHrefs
    /\ oracle = {RespList}

Next ==
    \/ PopLeft
    \/ NavigateOk
    \/ NavigateFail
    \/ AnalyzePage
    \/ \E i \in DOMAIN api_responses : LlmReturn(i)
    \/ MergeSelectors
    \/ \E s \in selectors : ClickStep(s)
    \/ ClicksDone
    \/ ScanPdfLinks
    \/ \E u \in DOMAIN tasks : TaskGet(u)
    \/ \E u \in DOMAIN tasks : TaskWrite(u)
    \/ GatherDone
    \/ LinkStep
    \/ LinksDone
    \/ LinkErrorLogged
    \/ PageError
    \/ LoopExit
    \/ MainQuit
    \/ Interrupt
    \/ FinallyQuit

Spec == Init /\ [][Next]_vars

\* a run of the scraper on a small site (one document, which is also a page
\* of the base domain, and one malformed href), with an inference service
\* that gives any of the responses
InitPage ==
    /\ observed = {}
    /\ CrawlInit
    /\ ChunkIdle
    /\ IterIdle
    /\ site = {HrefDocBase, HrefBad}
    /\ oracle = Responses

SpecPage == InitPage /\ [][Next]_vars

\* a run of the scraper on a site of four pages of the base domain (one of
\* them a document) and a malformed href, in which the order of all queue
\* operations is observed
InitFifo ==
    /\ observed = Hrefs
    /\ CrawlInit
    /\ ChunkIdle
    /\ IterIdle
    /\ site = {HrefPageA, HrefOddScheme, HrefDocBase, HrefBad}
    /\ oracle = {RespList}

SpecFifo == InitFifo /\ [][Next]_vars

\* a run of the scraper that no KeyboardInterrupt ends, on a site of three
\* pages of the base domain (one of them a document), a document of another
\* host and a malformed href. Every call the loop waits for returns or raises (driver.get, the executor
\* calls with their timeout of 120 s, the downloads with their timeout of
\* 60 s), and the event loop runs what is ready: a step that stays possible
\* is taken.
InitLive ==
    /\ observed = {}
    /\ CrawlInit
    /\ ChunkIdle
    /\ IterIdle
    /\ site = {HrefPageA, HrefDocBase, HrefDocOther, HrefBad}
    /\ oracle = {RespList}

NextLive ==
    \/ PopLeft
    \/ NavigateOk
    \/ NavigateFail
    \/ AnalyzePage
    \/ \E i \in DOMAIN api_responses : LlmReturn(i)
    \/ MergeSelectors
    \/ \E s \in selectors : ClickStep(s)
    \/ ClicksDone
    \/ ScanPdfLinks
    \/ \E u \in DOMAIN tasks : TaskGet(u)
    \/ \E u \in DOMAIN tasks : TaskWrite(u)
    \/ GatherDone
    \/ LinkStep
    \/ LinksDone
    \/ LinkErrorLogged
    \/ PageError
    \/ LoopExit
    \/ MainQuit
    \/ FinallyQuit

SpecLive == InitLive /\ [][NextLive]_vars /\ WF_vars(NextLive)

\* a call chunk_html(html_content, size, overlap) on any input of the bounds
InitChunk ==
    /\ observed = {}
    /\ CrawlInit
    /\ IterIdle
    /\ site = {}
    /\ oracle = {}
    /\ c_pc = "loop"
    /\ html_content \in HtmlInputs
    /\ size \in 0..MaxChunkArg
    /\ overlap \in 0..MaxChunkArg
    /\ start = 0
    /\ chunks = <<>>

NextChunk == ChunkIter \/ ChunkReturn

SpecChunk == InitChunk /\ [][NextChunk]_vars

\* a run of an earlier iteration of the scraper, with any limits of the
\* bounds, on a site of three pages and three documents
IterSite == {START_URL, HrefPageA, HrefOddScheme, HrefDocBase, HrefDocOther, HrefDocLower}
InitIter ==
    /\ observed = {}
    /\ CrawlInit
    /\ ChunkIdle
    /\ site = IterSite
    /\ oracle = {}
    /\ it_pc = "loop"
    /\ it_queue = <<START_URL>>
    /\ it_visited_pages = {}
    /\ it_downloaded_pdfs = {}
    /\ it_url = NoUrl
    /\ it_new_pdfs = {}
    /\ it_link_idx = 0
    /\ max_pages \in 1..MaxPageLimit
    /\ max_pdfs \in 1..MaxPdfLimit

NextGemini ==
    \/ GeminiPopLeft
    \/ GeminiNavigateOk
    \/ GeminiNavigateRaise
    \/ GeminiRaise
    \/ GeminiClickAndDownload
    \/ GeminiLinkStep
    \/ GeminiLinksDone
    \/ GeminiExit

SpecGemini == InitIter /\ [][NextGemini]_vars

NextUniversal ==
    \/ UniversalPopLeft
    \/ UniversalNavigateOk
    \/ UniversalPageError
    \/ UniversalClickAndDownload
    \/ \E p \in it_new_pdfs : UniversalDownload(p)
    \/ UniversalDownloadsDone
    \/ UniversalLinkStep
    \/ UniversalLinksDone
    \/ UniversalExit

SpecUniversal == InitIter /\ [][NextUniversal]_vars

\* ------------------------------------------------------------------------
\* Claims about the download pipeline and the frontier (specification Spec)
\* ------------------------------------------------------------------------
\* the audit lines written for document URL u
AuditLines(u) == {i \in DOMAIN audit_log : audit_log[i].pdf_url = u}

\* C1: across a run every document URL is fetched over the network at most
\* once; a URL that was dispatched before is not fetched again when it is
\* found again, and no second audit line is written for it.
C1_FetchedAtMostOnce ==
    \A u \in Hrefs :
        /\ fetches[u] <= 1
        /\ Cardinality(AuditLines(u)) <= 1
        /\ fetches[u] > 0 => u \in downloaded_pdf_urls

\* C1 witness: a document fetched and logged from an earlier page is found
\* again on the current page, whose dispatch has created no task for it.
C1_Witness ==
    /\ pc = "links"
    /\ \E u \in pdf_links_on_page :
         /\ fetches[u] = 1
         /\ \E i \in AuditLines(u) : audit_log[i].source_url # url

\* C2: the pending queue holds no URL twice and no URL of the visited set.
C2_QueueDistinctFromVisited ==
    /\ \A i, j \in DOMAIN queue : queue[i] = queue[j] => i = j
    /\ \A i \in DOMAIN queue : queue[i] \notin visited_pages

\* C2 witness: the link loop has just read an in-scope href that is visited
\* or pending (the queue is not empty), and has left the queue as it was.
C2_Witness ==
    /\ pc = "links"
    /\ link_idx > 0
    /\ InScope(href)
    /\ href \in visited_pages
    /\ \E i \in DOMAIN queue : queue[i] # href

\* C3 (as claimed): no URL is ever dequeued from the pending queue twice.
C3_NeverDequeuedTwice == \A u \in Hrefs : dequeued[u] <= 1

\* C4 (as claimed): every URL added to the queue after the start URL is an
\* absolute http or https URL whose host is the host of the start URL.
C4_EnqueuedHttpSameHost ==
    \A u \in enqueued :
        /\ Scheme(u) \in {<<"h", "t", "t", "p">>, <<"h", "t", "t", "p", "s">>}
        /\ Netloc(u) = Netloc(START_URL)

\* C5 (as claimed): an href that ends in .pdf, in any case, is never added to
\* the pending queue and never navigated to as a page.
C5_DocumentNeverEnqueued ==
    \A u \in Hrefs : IsPdfHref(u) => (u \notin enqueued /\ navigated[u] = 0)

C7_QuitExactlyOnce == pc = "done" => quit_calls = 1

\* ------------------------------------------------------------------------
\* Claims about chunk_html (specification SpecChunk)
\* ------------------------------------------------------------------------
\* chunkSize > overlap >= 0
ValidChunking == size > overlap /\ overlap >= 0

\* C8 (as claimed): an input no longer than size gives exactly one chunk,
\* the whole input.
C8_OneChunkWhenShort ==
    (c_pc = "returned" /\ ValidChunking /\ Len(html_content) <= size)
        => (Len(chunks) = 1 /\ chunks[1].text = html_content)

\* C9 (as claimed): every chunk but the last has length size, and two
\* consecutive chunks share exactly overlap characters.
C9_ChunkLengthAndOverlap ==
    (c_pc = "returned" /\ ValidChunking) =>
        \A k \in 1..(Len(chunks) - 1) :
            /\ Len(chunks[k].text) = size
            /\ chunks[k].hi - chunks[k + 1].lo = overlap
            /\ Len(chunks[k + 1].text) >= overlap
            /\ SubSeq(chunks[k].text, size - overlap + 1, size)
                 = SubSeq(chunks[k + 1].text, 1, overlap)

\* C10: the chunks are contiguous slices of the input, their spans cover
\* every character position, and the last chunk ends at the input's end.
C10_ChunksCoverInput ==
    (c_pc = "returned" /\ ValidChunking) =>
        /\ \A k \in DOMAIN chunks :
             /\ chunks[k].lo < chunks[k].hi
             /\ chunks[k].text = SubSeq(html_content, chunks[k].lo + 1, chunks[k].hi)
        /\ \A k \in 1..(Len(chunks) - 1) :
             /\ chunks[k].lo < chunks[k + 1].lo
             /\ chunks[k + 1].lo <= chunks[k].hi
        /\ \A i \in 1..Len(html_content) :
             \E k \in DOMAIN chunks : chunks[k].lo < i /\ i <= chunks[k].hi
        /\ chunks # <<>> => chunks[Len(chunks)].hi = Len(html_content)

\* C10 witness: an input longer than the stride has been split in three
\* chunks or more.
C10_Witness ==
    /\ c_pc = "returned"
    /\ ValidChunking
    /\ overlap > 0
    /\ Len(chunks) >= 3

\* C11 (as claimed): with size <= overlap the splitter produces no chunk (it
\* fails with an error before anything else is done).
C11_InvalidConfigurationRejected == size <= overlap => chunks = <<>>

\* ------------------------------------------------------------------------
\* Claims about error handling in the page loop (specification Spec)
\* ------------------------------------------------------------------------
\* the phases of an iteration that work on the page at url
PagePhases == {"source", "infer", "click", "scan", "gather", "links"}

\* a step in which driver.get(url) was called and url was left unvisited
NavigationErrorStep ==
    /\ pc = "get"
    /\ navigated'[url] = navigated[url] + 1
    /\ url \notin visited_pages'

\* main of scraper-agent.py abandons the page when driver.get raises: the
\* step leaves the frontier, the visited and downloaded sets, the tasks and
\* the audit log as they were and goes back to the loop head, where the next
\* pending URL, if there is one, can be dequeued; page work is only ever done
\* for a URL whose navigation returned. (Holds under Spec.)
ScraperAgentAbandonsPage ==
    /\ [](pc \in PagePhases => url \in visited_pages)
    /\ [](pc = "loop" /\ queue # <<>> => ENABLED PopLeft)
    /\ [][NavigationErrorStep =>
            /\ pc' = "loop"
            /\ UNCHANGED <<queue, visited_pages, downloaded_pdf_urls, tasks,
                           audit_log, enqueued>>]_vars

\* reached under Spec: the navigation to some URL has raised, and the crawl
\* has dequeued another URL after it.
ScraperAgentAbandonedPage ==
    /\ pc = "get"
    /\ \E u \in Hrefs :
         /\ navigated[u] > 0
         /\ u \notin visited_pages
         /\ u \notin Range(queue)
         /\ u # url

\* C16 (as claimed): a malformed href read by the link loop is skipped: the
\* step that reads it leaves the iteration in the link loop, where the
\* remaining anchors of the page are read.
C16_MalformedHrefSkipped ==
    [][pc = "links" /\ href' \in RaisingHrefs => pc' = "links"]_vars

\* ------------------------------------------------------------------------
\* Claims about the concurrent download batch (specification Spec)
\* ------------------------------------------------------------------------
\* a step in which the download of u fails
DownloadFailureStep(u) ==
    /\ u \in DOMAIN tasks
    /\ tasks[u] \notin Finished
    /\ tasks'[u] = "failed"

\* C17: a download that fails is a result of its own task only: the step
\* leaves main waiting in the gather and every other task as it was; main
\* leaves the gather only when all tasks are finished (a task that is not
\* finished has its next step enabled there, whatever the others did), and
\* when they are it goes on to the link discovery of the page.
C17_FailedDownloadIsPerItem ==
    /\ [](\A u \in DOMAIN tasks : tasks[u] \notin Finished => pc = "gather")
    /\ [](pc = "gather" /\ (\A u \in DOMAIN tasks : tasks[u] \in Finished)
            => ENABLED (GatherDone /\ pc' = "links"))
    /\ [][\A u \in Hrefs : DownloadFailureStep(u) =>
            /\ pc' = "gather"
            /\ \A v \in DOMAIN tasks \ {u} : tasks'[v] = tasks[v]]_vars

\* C17 witness: on the first page one download of the batch has failed,
\* another one of the same batch has been written, and the link loop of the
\* page has read an anchor.
C17_Witness ==
    /\ pc = "links"
    /\ link_idx > 0
    /\ Cardinality(visited_pages) = 1
    /\ \E u, v \in pdf_links_on_page : tasks[u] = "failed" /\ tasks[v] = "done"

\* C19 (as claimed): two distinct document URLs whose files have been written
\* in the same run were written to different file paths.
C19_DistinctUrlsDistinctFiles ==
    \A u, v \in DOMAIN tasks :
        u # v /\ tasks[u] = "done" /\ tasks[v] = "done"
            => FileName(u) # FileName(v)

\* ------------------------------------------------------------------------
\* Claims about selector inference and interaction (specification SpecPage)
\* ------------------------------------------------------------------------
\* the inference call of a chunk failed (None), or its response has no text,
\* no JSON-looking part, or a part that json.loads rejects
FailedChunk(r) ==
    \/ r = NoResponse
    \/ r = <<>>
    \/ JsonMatch(r) = <<>>
    \/ ~JsonLoads(JsonMatch(r)).ok
FailedResponses == {r \in Responses \cup {NoResponse} : FailedChunk(r)}

\* the chunks of the current page whose response is not a failed one
GoodChunks == {i \in DOMAIN api_responses : api_responses[i] \notin FailedResponses}

\* C12: when the responses of a page have been merged, the selector set is
\* the union of what the chunks that did not fail contribute each on its
\* own: a failed chunk adds nothing and takes nothing away, and when every
\* chunk failed the set is empty; the page is then in its click loop, and
\* once the loop is through it goes on to the scan for documents and links.
C12_FailedChunkContributesNothing ==
    /\ \A r \in FailedResponses : Added[r] = {}
    /\ pc = "click" =>
         /\ selectors = UNION {Added[api_responses[i]] : i \in GoodChunks}
         /\ GoodChunks = {} => selectors = {}
         /\ (\A s \in selectors : attempts[s] # "none") => ENABLED ClicksDone
    /\ pc = "infer" /\ (\A i \in DOMAIN api_responses : api_responses[i] # Pending)
         => ENABLED MergeSelectors

\* C12 witness: the page is in its click loop with the selectors of one
\* chunk, and a chunk after that one in api_responses failed.
C12_Witness ==
    /\ pc = "click"
    /\ selectors # {}
    /\ \E i, j \in DOMAIN api_responses :
         /\ i < j
         /\ api_responses[i] \notin FailedResponses
         /\ api_responses[j] \in FailedResponses

\* the candidate list decoded from a response that did not fail
CandidateList(r) == SelectorsList(JsonLoads(JsonMatch(r)))
\* its elements that are strings
StringElements(r) ==
    {CandidateList(r)[p].text :
        p \in {q \in DOMAIN CandidateList(r) : CandidateList(r)[q].kind = "str"}}

\* C13 (as claimed): the selector set of a page holds exactly the string
\* elements of the candidate lists of its chunks: the elements that are not
\* strings are left out, and every string element is in, whether it stands
\* before or after one that is not.
C13_NonStringsDiscarded ==
    pc = "click" =>
        selectors = UNION {StringElements(api_responses[i]) : i \in GoodChunks}

\* a step of the click loop in which the attempt for selector s fails
ClickFailureStep(s) ==
    /\ pc = "click"
    /\ s \in selectors
    /\ attempts[s] = "none"
    /\ s \in DOMAIN attempts'
    /\ attempts'[s] = "failed"

\* C14: in the click loop every selector of the page gets one attempt: a
\* selector that has had its attempt keeps its outcome, one that has not can
\* have it whatever happened to the others, and the loop is left for the
\* document scan only when none is left; a failed attempt leaves main in the
\* loop and the other selectors as they were.
C14_OneAttemptPerSelector ==
    /\ [](pc = "click" =>
            /\ DOMAIN attempts = selectors
            /\ \A s \in selectors : attempts[s] = "none" => ENABLED ClickStep(s)
            /\ (\A s \in selectors : attempts[s] # "none") => ENABLED ClicksDone)
    /\ [][pc = "click" =>
            /\ pc' = "scan" => \A s \in selectors : attempts[s] # "none"
            /\ pc' = "click" =>
                 \A s \in selectors : attempts[s] # "none" => attempts'[s] = attempts[s]
            /\ \A s \in selectors : ClickFailureStep(s) =>
                 /\ pc' = "click"
                 /\ \A o \in selectors \ {s} : attempts'[o] = attempts[o]]_vars

\* C14 witness: every selector of the page has had its attempt, one attempt
\* has failed and another one has clicked.
C14_Witness ==
    /\ pc = "click"
    /\ \A s \in selectors : attempts[s] # "none"
    /\ \E s, o \in selectors : attempts[s] = "failed" /\ attempts[o] = "clicked"

\* ------------------------------------------------------------------------
\* Claims about the two fan-outs of a page (specification Spec)
\* ------------------------------------------------------------------------
\* an inference call or a download task of the current page is in flight
InferenceInFlight == \E i \in DOMAIN api_responses : api_responses[i] = Pending
DownloadInFlight == \E u \in DOMAIN tasks : tasks[u] \notin Finished

\* C18: no step taken while an inference call or a download task is in
\* flight changes the visited set, the pending queue or the set of
\* dispatched documents: nothing is enqueued and nothing is dequeued; main is
\* then waiting in the gather of that fan-out.
C18_GatherBarriers ==
    /\ [](InferenceInFlight => pc = "infer")
    /\ [](DownloadInFlight => pc = "gather")
    /\ [][InferenceInFlight \/ DownloadInFlight =>
            UNCHANGED <<visited_pages, queue, downloaded_pdf_urls, enqueued,
                        dequeued>>]_vars

\* C18 witness: in the download batch of a page one task is in flight and
\* another one is finished, while a URL is pending in the queue; the
\* inference calls of the page had been in flight before.
C18_Witness ==
    /\ pc = "gather"
    /\ queue # <<>>
    /\ \E u, v \in pdf_links_on_page : tasks[u] = "got" /\ tasks[v] \in Finished

\* ------------------------------------------------------------------------
\* Claims about the earlier iterations (specifications SpecGemini and
\* SpecUniversal)
\* ------------------------------------------------------------------------
\* C15 (as claimed): when driver.get raises for the dequeued URL the page is
\* abandoned and the crawl goes on: the step ends at the loop head, and the
\* URL is not in the visited set.
C15_NavigationErrorAbandonsPage ==
    [][it_pc = "get" /\ it_pc' # "page" =>
          /\ it_pc' = "loop"
          /\ it_url \notin it_visited_pages']_vars

\* C20 (as claimed): the number of documents downloaded in a run is never
\* larger than MAX_PDFS.
C20_DownloadsWithinLimit == Cardinality(it_downloaded_pdfs) <= max_pdfs

\* ---------------------------------------------------------------------------
\* C21: URLs are dequeued in exactly the order in which they were enqueued:
\* at every moment the sequence of the URLs taken by queue.popleft() is a
\* prefix of the sequence of the URLs given to queue.append() (the start URL
\* first), so the k-th URL enqueued is the k-th URL dequeued, and the URLs
\* still pending are the rest of that sequence, in its order.
IsPrefix(s, t) == Len(s) <= Len(t) /\ SubSeq(t, 1, Len(s)) = s

C21_DequeuedInEnqueueOrder ==
    observed = Hrefs =>
        /\ IsPrefix(deq_order, enq_order)
        /\ enq_order = deq_order \o queue

\* two URLs enqueued by the first page, in the order of its anchors, were both
\* dequeued, and a third one is pending behind them
C21_Witness ==
    /\ observed = Hrefs
    /\ Len(deq_order) >= 3
    /\ deq_order[2] # deq_order[3]
    /\ enq_order[2] = deq_order[2]
    /\ enq_order[3] = deq_order[3]
    /\ Len(enq_order) > Len(deq_order)

\* ---------------------------------------------------------------------------
\* the elements of the selector list parsed from response r
ListElements(r) == {CandidateList(r)[p].text : p \in DOMAIN CandidateList(r)}

\* C22 (as claimed): when the merge has returned, the merged selector set of
\* the page is the union of the selector lists parsed from the responses of
\* its chunks (a set: an element returned for two chunks is in it once).
C22_MergedIsUnionOfLists ==
    pc = "click" =>
        selectors = UNION {ListElements(api_responses[i]) : i \in GoodChunks}

\* ---------------------------------------------------------------------------
\* a step that adds to the visited set
MarksVisited == visited_pages' # visited_pages

\* C24: no URL is navigated with success more than once. The visited set only
\* grows, and by the one URL whose driver.get() has just returned without an
\* error; the URL handed to driver.get() is never a visited one; and a visited
\* URL is never pending and is never appended to the queue again, whatever
\* became of the rest of its processing.
C24_VisitedOnceAndForAll ==
    /\ [](pc = "get" => url \notin visited_pages)
    /\ [](\A i \in DOMAIN queue : queue[i] \notin visited_pages)
    /\ [][visited_pages \subseteq visited_pages']_vars
    /\ [][MarksVisited =>
            /\ pc = "get"
            /\ pc' = "source"
            /\ url \notin visited_pages
            /\ visited_pages' = visited_pages \cup {url}]_vars
    /\ [][\A u \in visited_pages :
            Len(queue') > Len(queue) => queue'[Len(queue')] # u]_vars

\* a page that was loaded and whose processing is over is linked to by a page
\* loaded after it: the link loop has read its href and has left it out of
\* the queue, while a URL whose navigation failed before is pending again
C24_Witness ==
    /\ pc = "links"
    /\ link_idx > 0
    /\ href \in visited_pages
    /\ href # url
    /\ navigated[href] = 1
    /\ \E i \in DOMAIN queue : navigated[queue[i]] >= 1

\* ---------------------------------------------------------------------------
\* a step that appends the audit line of document URL u
AuditLineWritten(u) ==
    /\ Len(audit_log') = Len(audit_log) + 1
    /\ audit_log'[Len(audit_log')].pdf_url = u

\* C25: an audit line for a document URL is appended only by the step in
\* which the file of that document, whose bytes were fetched with a success
\* status, has been written (and that step appends one line and leaves the
\* lines before it as they were); at every moment every URL of an audit line
\* is in the downloaded set and was fetched, and every URL that has a
\* download task, started or not, is in the downloaded set.
C25_AuditAfterWrite ==
    /\ [](\A i \in DOMAIN audit_log :
            /\ audit_log[i].pdf_url \in downloaded_pdf_urls
            /\ fetches[audit_log[i].pdf_url] >= 1)
    /\ [](DOMAIN tasks \subseteq downloaded_pdf_urls)
    /\ [][audit_log' # audit_log =>
            \E u \in DOMAIN tasks :
                /\ AuditLineWritten(u)
                /\ SubSeq(audit_log', 1, Len(audit_log)) = audit_log
                /\ pc = "gather"
                /\ tasks[u] = "got"
                /\ tasks'[u] = "done"
                /\ u \in downloaded_pdf_urls]_vars

\* the audit line of one document of the page is written while the download
\* of another document of the page has its bytes and not yet its file
C25_Witness ==
    /\ pc = "gather"
    /\ \E u, v \in DOMAIN tasks :
         /\ tasks[u] = "done"
         /\ AuditLines(u) # {}
         /\ tasks[v] = "got"
         /\ AuditLines(v) = {}
         /\ v \in downloaded_pdf_urls

\* ---------------------------------------------------------------------------
\* C23: on a site of finitely many URLs of the base domain, when every call
\* the loop waits for returns or raises, the crawl loop ends, and it ends with
\* the pending queue empty, whichever navigations, inference calls, page
\* phases and downloads fail on the way.
C23_CrawlLoopTerminates == <>(pc = "main_quit" /\ queue = <<>>)

\* the loop has ended with an empty queue after a run in which a navigation
\* failed twice for the same URL (it was enqueued again by a later page), a
\* download failed and another succeeded
C23_Witness ==
    /\ pc = "main_quit"
    /\ queue = <<>>
    /\ \E u \in Hrefs : navigated[u] >= 2 /\ u \notin visited_pages
    /\ \E u, v \in DOMAIN tasks : tasks[u] = "failed" /\ tasks[v] = "done"

====
